---- MODULE Spec2Model ----
(***************************************************************************)
(* Model of the analysis engine of ChessAnalyzer:                          *)
(*   Backend/app/services/stockfish_pool.py   (StockfishPool)              *)
(*   Backend/app/services/game_analyzer.py    (GameAnalyzer)               *)
(*   Backend/app/services/lichess.py          (cloud evaluation path)      *)
(*                                                                         *)
(* Python lists are 0-indexed, TLA+ sequences 1-indexed: position k of the *)
(* model is positions[k-1] of the code, ply i is moves_data[i-1].          *)
(* An optional value is << >> (None) or <<v>>.                             *)
(***************************************************************************)
EXTENDS Integers, Sequences, FiniteSets, TLC

\* ------------------------------------------------------------------ bounds
PoolSize == 2
MaxPlies == 2
CloudMaxPlies == 5
MaxMoves == 4

MaxPositions == MaxPlies + 1
Tasks == 1..MaxPositions
Engines == 1..PoolSize

None == << >>
Some(v) == <<v>>

\* ------------------------------------------------------------------ state
VARIABLES
    pgnKind,        \* what chess.pgn.read_game makes of pgn_text: "none" | "ok"
    nPlies,         \* number of plies of the mainline
    firstColor,     \* side to move in the starting position: "w" | "b"
    material,       \* position k -> white material minus black material
    useFallback,    \* GameAnalyzer.use_lichess_fallback
    enginePathOk,   \* engine_path is set and exists
    poolExists,     \* the module global _pool is not None
    engines,        \* StockfishPool.engines
    available,      \* StockfishPool.available (asyncio.Queue items, FIFO)
    getters,        \* asyncio.Queue._getters: tasks suspended in get(), FIFO
    started,        \* StockfishPool._started
    launchIdx,      \* loop variable i of start()
    closed,         \* close() has run on the pool
    tpc,            \* task -> position of the analyze_position coroutine
    theld,          \* task -> engine it holds (0: none)
    tret,           \* task -> value the coroutine returned
    acquired,       \* task -> number of _acquire_engine calls that returned
    released,       \* task -> number of _release_engine calls
    completed,      \* tasks in the order their coroutines finished
    apc,            \* position of GameAnalyzer.analyze_game
    result,         \* value returned by analyze_game
    tier,           \* paths analyze_game has entered so far
    poolOutcome,    \* how the pooled path ended: "" | usable | no_moves | error | raised
    cloudOutcome,   \* how the fallback ended: "" | disabled | raised | error | ok
    propagated,     \* an exception has left analyze_game
    lookup,         \* position -> state of its evaluate_position coroutine
    results,        \* the results list of analyze_game_positions
    batchStart,     \* loop variable batch_start
    cargs,          \* arguments of a direct call of classify_move
    cvalue,         \* value that call returned ("": not called yet)
    amoves,         \* move list of a direct call of the accuracy functions
    aval,           \* what those calls returned (None: not called yet)
    peer,           \* position of a second, concurrent analyze_game: "start" | "has_pool"
    peerPool,       \* the pool as get_stockfish_pool handed it to that caller
    epc,            \* position of the analyze endpoint: "none" | "request" | "analysing" | "returned"
    force,          \* the endpoint's force parameter
    dbMoves,        \* the Move rows of the game in the database
    dbAnalyzed      \* the stored Game.analyzed flag

poolVars == <<poolExists, engines, available, getters, started, launchIdx, closed>>
taskVars == <<tpc, theld, tret, acquired, released, completed>>
callVars == <<cargs, cvalue, amoves, aval>>
peerVars == <<peer, peerPool>>
endpointVars == <<epc, force, dbMoves, dbAnalyzed>>
inputVars == <<pgnKind, nPlies, firstColor, material, useFallback, enginePathOk, callVars,
               peerVars, endpointVars>>
gameVars == <<apc, result, tier, poolOutcome, cloudOutcome, propagated>>
cloudVars == <<lookup, results, batchStart>>
vars == <<inputVars, poolVars, taskVars, gameVars, cloudVars>>
\* everything a direct call of a classification.py function leaves alone
analysisVars == <<pgnKind, nPlies, firstColor, material, useFallback, enginePathOk,
                  peerVars, endpointVars, poolVars, taskVars, gameVars, cloudVars>>

\* ------------------------------------------------------------ positions
Opposite(c) == IF c = "w" THEN "b" ELSE "w"

\* side to move in position k (board.turn)
Turn(k) == IF k % 2 = 1 THEN firstColor ELSE Opposite(firstColor)

NumPositions == nPlies + 1

\* ------------------------------------------------- StockfishPool helpers
MateCentipawns(m) == (10000 - (IF m < 0 THEN -m ELSE m) * 10) * (IF m > 0 THEN 1 ELSE -1)

_heuristic_evaluate(k) ==
    [fen |-> k,
     evaluation |-> IF Turn(k) = "b" THEN -material[k] ELSE material[k],
     best_move |-> "None",
     second_best_eval |-> None,
     is_mate |-> FALSE,
     mate_in |-> None,
     depth |-> 0,
     source |-> "heuristic"]

\* what engine.analyse can produce for one position: the list of infos
\* (first PV, optional second PV), an empty list, an info without a score,
\* or an exception (engine died, protocol error)
CpInfo(v, pv, second) == [kind |-> "infos", mate |-> None, cp |-> v, pv |-> pv, second |-> second]
MateInfo(m, pv, second) == [kind |-> "infos", mate |-> Some(m), cp |-> 0, pv |-> pv, second |-> second]
Failure(kind) == [kind |-> kind, mate |-> None, cp |-> 0, pv |-> "None", second |-> None]

SecondCp(v) == Some([mate |-> None, cp |-> v])
SecondMate(m) == Some([mate |-> Some(m), cp |-> 0])

EngineReplies ==
    { CpInfo(60, "played", SecondCp(-140)),
      MateInfo(2, "other", None),
      Failure("empty"), Failure("noscore"), Failure("raise") }

Depth == 18

\* lines 135-143 and 154-159: a relative score as centipawns
Centipawns(s) == IF s.mate /= None THEN MateCentipawns(s.mate[1]) ELSE s.cp

\* a result that keeps the mate flag of the score and loses its distance
AnalysisResultNoDistance(k, r) ==
    IF r.kind \in {"raise", "empty", "noscore"}
    THEN _heuristic_evaluate(k)
    ELSE [fen |-> k,
          evaluation |-> Centipawns(r),
          best_move |-> r.pv,
          second_best_eval |-> IF r.second = None THEN None
                               ELSE Some(Centipawns(r.second[1])),
          is_mate |-> r.mate /= None,
          mate_in |-> None,
          depth |-> Depth,
          source |-> "stockfish"]

\* the value analyze_position returns for position k once engine.analyse
\* has ended with reply r (lines 116-174)
AnalysisResult(k, r) ==
    IF r.kind \in {"raise", "empty", "noscore"}
    THEN _heuristic_evaluate(k)
    ELSE [fen |-> k,
          evaluation |-> Centipawns(r),
          best_move |-> r.pv,
          second_best_eval |-> IF r.second = None THEN None
                               ELSE Some(Centipawns(r.second[1])),
          is_mate |-> r.mate /= None,
          mate_in |-> r.mate,
          depth |-> Depth,
          source |-> "stockfish"]

\* ------------------------------------------------ asyncio.Queue of engines
\* put_nowait: appends the item and wakes the first suspended getter
QueuePut(q, e) == Append(q, e)

\* a put that wakes no getter
WokenNone(g) == 0

WokenBy(g) == IF g = << >> THEN 0 ELSE Head(g)

\* engine e is not among the running engines of the pool: close() has quit
\* it (lines 84-89)
Terminated(e) == \A n \in 1..Len(engines) : engines[n] /= e

\* a release that puts the engine back twice
ReleaseTwice(t) ==
    /\ available' = QueuePut(QueuePut(available, theld[t]), theld[t])
    /\ getters' = IF getters = << >> THEN getters ELSE Tail(getters)
    /\ released' = [released EXCEPT ![t] = @ + 1]
    /\ theld' = [theld EXCEPT ![t] = 0]

\* _release_engine(engine), as run in the finally clause
_release_engine(t) ==
    /\ available' = QueuePut(available, theld[t])
    /\ getters' = IF getters = << >> THEN getters ELSE Tail(getters)
    /\ released' = [released EXCEPT ![t] = @ + 1]
    /\ theld' = [theld EXCEPT ![t] = 0]

\* an acquire that reads the head of the queue without removing it
AcquirePeek(t) ==
    /\ available /= << >>
    /\ UNCHANGED available
    /\ theld' = [theld EXCEPT ![t] = Head(available)]
    /\ acquired' = [acquired EXCEPT ![t] = @ + 1]

\* _acquire_engine() when the queue holds an engine
_acquire_engine(t) ==
    /\ available /= << >>
    /\ available' = Tail(available)
    /\ theld' = [theld EXCEPT ![t] = Head(available)]
    /\ acquired' = [acquired EXCEPT ![t] = @ + 1]

\* ------------------------------------------------------- analyze_position
\* first run of the coroutine of position t, up to its first suspension.
\* Tasks created by gather start in creation order.
TaskStart(t) ==
    /\ tpc[t] = "new"
    /\ \A u \in Tasks : u < t => tpc[u] /= "new"
    /\ IF engines = << >>
       THEN /\ tpc' = [tpc EXCEPT ![t] = "done"]
            /\ tret' = [tret EXCEPT ![t] = Some(_heuristic_evaluate(t))]
            /\ completed' = Append(completed, t)
            /\ UNCHANGED <<available, getters, theld, acquired, released>>
       ELSE IF available /= << >>
       THEN /\ _acquire_engine(t)
            /\ tpc' = [tpc EXCEPT ![t] = "analysing"]
            /\ UNCHANGED <<getters, tret, released, completed>>
       ELSE /\ getters' = Append(getters, t)
            /\ tpc' = [tpc EXCEPT ![t] = "waiting"]
            /\ UNCHANGED <<available, theld, tret, acquired, released, completed>>
    /\ UNCHANGED <<inputVars, poolExists, engines, started, launchIdx, closed, gameVars, cloudVars>>

\* a getter woken by put_nowait runs again: it re-tests the queue
TaskWake(t) ==
    /\ tpc[t] = "woken"
    /\ IF available /= << >>
       THEN /\ _acquire_engine(t)
            /\ tpc' = [tpc EXCEPT ![t] = "analysing"]
            /\ UNCHANGED getters
       ELSE /\ getters' = Append(getters, t)
            /\ tpc' = [tpc EXCEPT ![t] = "waiting"]
            /\ UNCHANGED <<available, theld, acquired>>
    /\ UNCHANGED <<inputVars, poolExists, engines, started, launchIdx, closed,
                   tret, released, completed, gameVars, cloudVars>>

\* the release placed at the end of the try block instead of in a finally
\* clause: an exception of engine.analyse skips it
TaskFinishNoFinally(t, r) ==
    /\ tpc[t] = "analysing"
    /\ Terminated(theld[t]) => r.kind = "raise"
    /\ IF r.kind = "raise"
       THEN /\ theld' = [theld EXCEPT ![t] = 0]
            /\ UNCHANGED <<available, getters, released>>
            /\ tpc' = [tpc EXCEPT ![t] = "done"]
       ELSE /\ _release_engine(t)
            /\ tpc' = [u \in Tasks |->
                         IF u = t THEN "done"
                         ELSE IF u = WokenBy(getters) THEN "woken"
                         ELSE tpc[u]]
    /\ tret' = [tret EXCEPT ![t] = Some(AnalysisResult(t, r))]
    /\ completed' = Append(completed, t)
    /\ UNCHANGED <<inputVars, poolExists, engines, started, launchIdx, closed,
                   acquired, gameVars, cloudVars>>

\* engine.analyse ends with reply r; the coroutine computes its result,
\* runs the finally clause and returns. An engine that close() has quit
\* answers no more: an analyse on it raises.
TaskFinish(t, r) ==
    /\ tpc[t] = "analysing"
    /\ Terminated(theld[t]) => r.kind = "raise"
    /\ _release_engine(t)
    /\ tpc' = [u \in Tasks |->
                 IF u = t THEN "done"
                 ELSE IF u = WokenBy(getters) THEN "woken"
                 ELSE tpc[u]]
    /\ tret' = [tret EXCEPT ![t] = Some(AnalysisResult(t, r))]
    /\ completed' = Append(completed, t)
    /\ UNCHANGED <<inputVars, poolExists, engines, started, launchIdx, closed,
                   acquired, gameVars, cloudVars>>

\* engine.analyse is awaited without a timeout (lines 116-120, Limit(depth=...)):
\* an engine process that stops answering leaves the coroutine suspended in
\* the try block for good. One engine stalls at most.
EngineStall(t) ==
    /\ tpc[t] = "analysing"
    /\ \A u \in Tasks : tpc[u] /= "stalled"
    /\ tpc' = [tpc EXCEPT ![t] = "stalled"]
    /\ UNCHANGED <<inputVars, poolVars, theld, tret, acquired, released, completed,
                   gameVars, cloudVars>>

\* StockfishPool.close(), lines 82-90: every engine is quit, the list is
\* emptied and _started reset; the queue and its waiting getters are left
\* as they are
Close ==
    /\ poolExists
    /\ started
    /\ ~closed
    /\ engines' = << >>
    /\ started' = FALSE
    /\ closed' = TRUE
    /\ UNCHANGED <<inputVars, poolExists, available, getters, launchIdx, taskVars,
                   gameVars, cloudVars>>

\* start() called on the pool after close(), lines 59-80: _started is False
\* again, so pool_size new engines are launched (oks: which popen_uci calls
\* succeed), appended to the emptied list and put into the queue, which
\* close() left as it was; every put wakes a waiting getter
StartAfterClose(oks) ==
    /\ poolExists
    /\ closed
    /\ ~started
    /\ enginePathOk
    /\ LET fresh == SelectSeq([i \in 1..PoolSize |-> PoolSize + i],
                              LAMBDA e : oks[e - PoolSize])
           k == IF Len(fresh) < Len(getters) THEN Len(fresh) ELSE Len(getters)
       IN /\ engines' = fresh
          /\ available' = available \o fresh
          /\ getters' = SubSeq(getters, k + 1, Len(getters))
          /\ tpc' = [u \in Tasks |->
                       IF \E n \in 1..k : getters[n] = u THEN "woken" ELSE tpc[u]]
    /\ started' = TRUE
    /\ UNCHANGED <<inputVars, poolExists, launchIdx, closed, theld, tret, acquired,
                   released, completed, gameVars, cloudVars>>

\* ------------------------------------------------------ classification.py
\* thresholds scaled by 10^4 so that the decimal coefficients are integers
Abs(x) == IF x < 0 THEN -x ELSE x
get_evaluation_loss_threshold(classification, prev_eval) ==
    LET x == Abs(prev_eval) IN
    CASE classification = "best"       -> x * x + 236 * x + 100000
      [] classification = "excellent"  -> 2 * x * x + 1231 * x + 275455
      [] classification = "good"       -> 2 * x * x + 2643 * x + 605455
      [] classification = "inaccuracy" -> 2 * x * x + 3624 * x + 1080909
      [] classification = "mistake"    -> 3 * x * x + 4027 * x + 2258182

\* eval_loss <= get_evaluation_loss_threshold(classif, eval_before);
\* every other category has threshold infinity
WithinThreshold(classif, eval_loss, eval_before) ==
    IF classif \in {"best", "excellent", "good", "inaccuracy", "mistake"}
    THEN eval_loss * 10000 <= get_evaluation_loss_threshold(classif, eval_before)
    ELSE TRUE

ThresholdWalk == <<"best", "excellent", "good", "inaccuracy", "mistake", "blunder">>

\* the last category of the walk whose threshold admits the loss
WalkLast(j, eval_loss, eval_before) ==
    LET hits == {n \in j..Len(ThresholdWalk) :
                    WithinThreshold(ThresholdWalk[n], eval_loss, eval_before)}
    IN ThresholdWalk[CHOOSE n \in hits : \A m \in hits : n >= m]

\* lines 260-266: the first category of the walk whose threshold admits the loss
WalkFrom(j, eval_loss, eval_before) ==
    LET hits == {n \in j..Len(ThresholdWalk) :
                    WithinThreshold(ThresholdWalk[n], eval_loss, eval_before)}
    IN ThresholdWalk[CHOOSE n \in hits : \A m \in hits : n <= m]

\* Python truthiness of an optional integer: None and 0 are false
Truthy(o) == o /= None /\ o[1] /= 0

\* the threshold walk applied to every move, the best move included
BaseWalkOnly(a) == WalkFrom(1, a.eval_before - a.eval_after, a.eval_before)

\* lines 254-334: the category before the upgrades and the safety checks
BaseClassification(a) ==
    LET eval_loss == a.eval_before - a.eval_after
        mb == a.mate_in_before
        ma == a.mate_in_after
    IN
    IF ~a.is_mate_before /\ ~a.is_mate_after THEN
        IF a.is_best_move THEN "best"
        ELSE WalkFrom(1, eval_loss, a.eval_before)
    ELSE IF ~a.is_mate_before /\ a.is_mate_after THEN
        IF a.is_best_move THEN "best"
        ELSE IF Truthy(ma) /\ ma[1] > 0 THEN "best"
        ELSE IF Truthy(ma) /\ ma[1] >= -2 THEN "blunder"
        ELSE IF Truthy(ma) /\ ma[1] >= -5 THEN "mistake"
        ELSE "inaccuracy"
    ELSE IF a.is_mate_before /\ ~a.is_mate_after THEN
        IF a.is_best_move THEN "best"
        ELSE IF Truthy(mb) /\ mb[1] < 0 THEN
            IF a.eval_after >= 0 THEN "best" ELSE "good"
        ELSE IF a.eval_after >= 400 THEN "good"
        ELSE IF a.eval_after >= 150 THEN "inaccuracy"
        ELSE IF a.eval_after >= -100 THEN "mistake"
        ELSE "blunder"
    ELSE
        IF a.is_best_move THEN "best"
        ELSE IF Truthy(mb) /\ mb[1] > 0 THEN
            IF Truthy(ma) /\ ma[1] <= -4 THEN "mistake"
            ELSE IF Truthy(ma) /\ ma[1] < 0 THEN "blunder"
            ELSE IF Truthy(ma) /\ ma[1] <= mb[1] THEN "best"
            ELSE IF Truthy(ma) /\ ma[1] <= mb[1] + 2 THEN "excellent"
            ELSE "good"
        ELSE IF ma = mb THEN "best" ELSE "good"

\* lines 342-380
BrilliantUpgrade(c, a) ==
    IF /\ c = "best" /\ ~a.is_mate_before
       /\ ~(a.second_best_eval /= None /\ a.second_best_eval[1] >= 700)
       /\ a.eval_after >= -50
       /\ ~a.in_check
       /\ a.uci_ok
       /\ a.piece_hanging
    THEN "brilliant" ELSE c

\* no upgrade to GREAT
GreatNone(c, a) == c

\* lines 387-400
GreatUpgrade(c, a) ==
    IF /\ c = "best" /\ ~a.is_mate_before /\ ~a.is_mate_after
       /\ a.second_best_eval /= None
       /\ a.eval_before - a.second_best_eval[1] >= 150
       /\ (~a.uci_ok \/ ~a.dest_hanging)
    THEN "great" ELSE c

\* no clamp applied
SafetyNone(c, a) == c

\* lines 402-417
SafetyChecks(c, a) ==
    LET c1 == IF c = "blunder" /\ a.eval_after >= 600 THEN "inaccuracy" ELSE c
        c2 == IF c1 = "blunder" /\ a.eval_before <= -600
                   /\ ~a.is_mate_before /\ ~a.is_mate_after
              THEN "inaccuracy" ELSE c1
    IN IF c2 = "inaccuracy" /\ a.eval_after >= 500 THEN "good" ELSE c2

\* the opening-book test placed before the test of the only legal move
ClassifyBookFirst(a) ==
    IF ~a.fen_ok THEN "good"
    ELSE IF /\ a.move_number <= 5
            /\ WithinThreshold("good", a.eval_before - a.eval_after, a.eval_before)
         THEN "book"
    ELSE IF a.is_only_legal_move THEN "forced"
    ELSE SafetyChecks(GreatUpgrade(BrilliantUpgrade(BaseClassification(a), a), a), a)

\* the two boards built only where they are first used, after the tests of
\* the only legal move and of the opening book
ClassifyParseLate(a) ==
    IF a.is_only_legal_move THEN "forced"
    ELSE IF /\ a.move_number <= 5
            /\ WithinThreshold("good", a.eval_before - a.eval_after, a.eval_before)
         THEN "book"
    ELSE IF ~a.fen_ok THEN "good"
    ELSE SafetyChecks(GreatUpgrade(BrilliantUpgrade(BaseClassification(a), a), a), a)

\* the opening-book test placed after the test of the best move
ClassifyBookAfterBest(a) ==
    IF ~a.fen_ok THEN "good"
    ELSE IF a.is_only_legal_move THEN "forced"
    ELSE IF /\ ~a.is_best_move
            /\ a.move_number <= 5
            /\ WithinThreshold("good", a.eval_before - a.eval_after, a.eval_before)
         THEN "book"
    ELSE SafetyChecks(GreatUpgrade(BrilliantUpgrade(BaseClassification(a), a), a), a)

\* classify_move, lines 232-425; the except clause (421-425) answers GOOD
\* when a FEN does not parse
classify_move(a) ==
    IF ~a.fen_ok THEN "good"
    ELSE IF a.is_only_legal_move THEN "forced"
    ELSE IF /\ a.move_number <= 5
            /\ WithinThreshold("good", a.eval_before - a.eval_after, a.eval_before)
         THEN "book"
    ELSE SafetyChecks(GreatUpgrade(BrilliantUpgrade(BaseClassification(a), a), a), a)

\* ------------------------------------------- classify_move called directly
\* the arguments of one call; the boards enter through what the function
\* reads off them
ClassifyArgs(pair, best, second, mateBefore, mateAfter, number, only, board) ==
    [eval_before |-> pair[1],
     eval_after |-> pair[2],
     is_best_move |-> best,
     second_best_eval |-> CASE second = "none" -> None
                            [] second = "gap200" -> Some(pair[1] - 200)
                            [] second = "gap149" -> Some(pair[1] - 149)
                            [] second = "winning" -> Some(700),
     is_mate_before |-> mateBefore.is_mate,
     is_mate_after |-> mateAfter.is_mate,
     mate_in_before |-> mateBefore.mate_in,
     mate_in_after |-> mateAfter.mate_in,
     move_number |-> number,
     is_only_legal_move |-> only,
     in_check |-> board.in_check,
     piece_hanging |-> board.piece_hanging,
     dest_hanging |-> board.dest_hanging,
     fen_ok |-> board.fen_ok,
     uci_ok |-> board.uci_ok]

Mate(flag, distance) == [is_mate |-> flag, mate_in |-> distance]

Board(check, hanging, dest, fen, uci) ==
    [in_check |-> check, piece_hanging |-> hanging, dest_hanging |-> dest,
     fen_ok |-> fen, uci_ok |-> uci]

\* <<eval_before, eval_after>> around every threshold at eval_before = 0,
\* around the two clamps at 600 and -600, and a few ordinary pairs
EvalPairs ==
    { <<0, -10>>, <<0, -11>>, <<0, -27>>, <<0, -28>>, <<0, -60>>, <<0, -61>>,
      <<0, -108>>, <<0, -109>>, <<0, -225>>, <<0, -226>>, <<0, -350>>, <<0, 100>>,
      <<-600, -1200>>, <<-599, -1200>>, <<700, 600>>, <<700, 599>>, <<300, 280>> }

SecondChoices == {"none", "gap200", "gap149", "winning"}
MatesBefore == { Mate(FALSE, None), Mate(TRUE, Some(1)), Mate(TRUE, Some(3)), Mate(TRUE, Some(-1)) }
\* after the move: no mate, the mover mated in 1 or in 4, checkmate delivered
\* (distance 0), and the mover mating in 3, 5 or 6
MatesAfter ==
    { Mate(FALSE, None), Mate(TRUE, Some(-1)), Mate(TRUE, Some(-4)), Mate(TRUE, Some(0)),
      Mate(TRUE, Some(3)), Mate(TRUE, Some(5)), Mate(TRUE, Some(6)) }
MoveNumbers == {5, 6}
Boards ==
    { Board(FALSE, FALSE, FALSE, TRUE, TRUE), Board(FALSE, FALSE, TRUE, TRUE, TRUE),
      Board(FALSE, TRUE, FALSE, TRUE, TRUE), Board(FALSE, TRUE, TRUE, TRUE, TRUE),
      Board(TRUE, TRUE, FALSE, TRUE, TRUE),
      Board(FALSE, FALSE, TRUE, TRUE, FALSE), Board(FALSE, FALSE, FALSE, FALSE, FALSE) }

\* no direct call in progress
NoCall ==
    ClassifyArgs(<<0, 0>>, FALSE, "none", Mate(FALSE, None), Mate(FALSE, None), 1, FALSE,
                 Board(FALSE, FALSE, FALSE, TRUE, TRUE))

\* classify_move(...) is called with cargs and returns
ClassifyCall ==
    /\ cvalue = ""
    /\ cargs /= NoCall
    /\ cvalue' = classify_move(cargs)
    /\ UNCHANGED <<analysisVars, cargs, amoves, aval>>

\* -------------------------------------------------- accuracy, lines 26-38, 428-473
\* CLASSIFICATION_VALUES in hundredths; .get(c.lower(), 0.5) answers 0.5 for
\* a string that is not a key
CLASSIFICATION_VALUES(c) ==
    CASE c = "blunder"    -> 0
      [] c = "mistake"    -> 20
      [] c = "inaccuracy" -> 40
      [] c = "good"       -> 65
      [] c = "excellent"  -> 90
      [] c \in {"best", "great", "brilliant", "book", "forced"} -> 100
      [] OTHER            -> 50

RECURSIVE SumValues(_)
SumValues(cs) ==
    IF cs = << >> THEN 0 ELSE CLASSIFICATION_VALUES(Head(cs)) + SumValues(Tail(cs))

\* the number num / den
Ratio(n, d) == [num |-> n, den |-> d]

\* the sum of the values times 100, not divided by the number of moves
AccuracySum(cs) ==
    IF cs = << >> THEN Ratio(0, 1) ELSE Ratio(SumValues(cs), 1)

\* calculate_accuracy, lines 441-449: 0.0 for the empty list, else
\* (total_value / len) * 100
calculate_accuracy(cs) ==
    IF cs = << >> THEN Ratio(0, 1) ELSE Ratio(SumValues(cs), Len(cs))

\* round(x, 1) in tenths: the nearest tenth; when x lies exactly half way
\* between two tenths the floating-point sum decides, and either neighbour
\* can come out
RoundOne(x) ==
    LET q == (10 * x.num) \div x.den
        r == (10 * x.num) % x.den
    IN IF 2 * r < x.den THEN {q}
       ELSE IF 2 * r > x.den THEN {q + 1}
       ELSE {q, q + 1}

\* lines 464-468: the qualities of the moves of one colour, in order
ColorQualities(moves, color) ==
    LET sel == SelectSeq(moves, LAMBDA m : m.color = color)
    IN [k \in 1..Len(sel) |-> sel[k].quality]

\* calculate_accuracy_by_color, lines 464-473, in tenths
calculate_accuracy_by_color(moves) ==
    { [white |-> w, black |-> b] :
        w \in RoundOne(calculate_accuracy(ColorQualities(moves, "w"))),
        b \in RoundOne(calculate_accuracy(ColorQualities(moves, "b"))) }

\* the move dictionaries of a direct call: the two keys the functions read
AccuracyQualities == {"blunder", "mistake", "inaccuracy", "good", "excellent", "best", "book"}
AccuracyMoves == [color : {"w", "b"}, quality : AccuracyQualities]

\* analyzed_moves.append(...) (game_analyzer.py 206, lichess.py 695): the
\* caller adds a move to the list, up to MaxMoves moves, White's moves listed
\* before Black's (each function reads the moves of one colour in their
\* order in the list)
AppendMove(m) ==
    /\ aval = None
    /\ Len(amoves) < MaxMoves
    /\ m.color = "w" => \A k \in 1..Len(amoves) : amoves[k].color = "w"
    /\ amoves' = Append(amoves, m)
    /\ UNCHANGED <<analysisVars, cargs, cvalue, aval>>

AllQualities(moves) == [k \in 1..Len(moves) |-> moves[k].quality]

\* calculate_accuracy_by_color(amoves) and calculate_accuracy over the same
\* moves are called and return (game_analyzer.py 245-246, lichess.py 715-716)
AccuracyCall ==
    /\ aval = None
    /\ \E by \in calculate_accuracy_by_color(amoves) :
          aval' = Some([overall |-> calculate_accuracy(AllQualities(amoves)),
                        white |-> by.white,
                        black |-> by.black])
    /\ UNCHANGED <<analysisVars, cargs, cvalue, amoves>>

\* ------------------------------------------------------- game_analyzer.py
\* facts python-chess reads off the boards of one ply
Facts(only, check, hanging, dest) ==
    [is_only_legal |-> only, in_check |-> check, piece_hanging |-> hanging, dest_hanging |-> dest]

PlyFactSet ==
    { Facts(FALSE, FALSE, TRUE, FALSE),
      Facts(TRUE, TRUE, FALSE, FALSE) }

\* move_number of ply i: starts at 1, incremented after each move of Black
MoveNumber(i) == 1 + Cardinality({j \in 1..(i - 1) : Turn(j) = "b"})

\* evaluations[i] if i < len(evaluations) else {}, read through dict.get
EmptyEvaluation ==
    [fen |-> 0, evaluation |-> 0, best_move |-> "None", second_best_eval |-> None,
     is_mate |-> FALSE, mate_in |-> None, depth |-> 0, source |-> "absent"]

EvaluationAt(evals, k) == IF k <= Len(evals) THEN evals[k] ELSE EmptyEvaluation

Negated(o) == IF o = None THEN None ELSE Some(-o[1])
Times(o, m) == IF o = None THEN None ELSE Some(o[1] * m)

\* lines 147-155: the two evaluations of a ply in the mover's perspective
PoolEvalBeforePerspective(evaluation_before, color) ==
    evaluation_before * (IF color = "w" THEN 1 ELSE -1)

PoolEvalAfterPerspective(evaluation_after, color) ==
    (-evaluation_after) * (IF color = "w" THEN 1 ELSE -1)

\* lines 143-227: the record of ply i built from the pool's evaluations
PoolMoveRecord(evals, i, f) ==
    LET eval_before == EvaluationAt(evals, i)
        eval_after == EvaluationAt(evals, i + 1)
        color == Turn(i)
        color_mult == IF color = "w" THEN 1 ELSE -1
        ebp == PoolEvalBeforePerspective(eval_before.evaluation, color)
        eap == PoolEvalAfterPerspective(eval_after.evaluation, color)
        second == Times(eval_before.second_best_eval, color_mult)
        args == [eval_before |-> ebp,
                 eval_after |-> eap,
                 is_best_move |-> eval_before.best_move = "played",
                 second_best_eval |-> second,
                 is_mate_before |-> eval_before.is_mate,
                 is_mate_after |-> eval_after.is_mate,
                 mate_in_before |-> eval_before.mate_in,
                 mate_in_after |-> Negated(eval_after.mate_in),
                 move_number |-> MoveNumber(i),
                 is_only_legal_move |-> f.is_only_legal,
                 in_check |-> f.in_check,
                 piece_hanging |-> f.piece_hanging,
                 dest_hanging |-> f.dest_hanging,
                 fen_ok |-> TRUE,
                 uci_ok |-> TRUE]
    IN [ply |-> i,
        move_number |-> MoveNumber(i),
        color |-> color,
        fen_before |-> i,
        fen_after |-> i + 1,
        evaluation_before |-> eval_before.evaluation,
        evaluation_after |-> eval_after.evaluation,
        evaluation_loss |-> ebp - eap,
        best_move |-> eval_before.best_move,
        second_best_eval |-> second,
        classified |-> args,
        quality |-> classify_move(args),
        explained |-> TRUE,
        source |-> "stockfish"]

\* lines 204-213: what gather returned, exceptions replaced by the heuristic
ExceptionValue == [EmptyEvaluation EXCEPT !.source = "exception"]

ProcessedResult(k, r) ==
    IF r = ExceptionValue THEN _heuristic_evaluate(k) ELSE r

\* results collected in the order the tasks finished
GatherAsCompleted == [k \in 1..NumPositions |-> tret[completed[k]][1]]

\* line 202: gather returns the values of the tasks in the order of the tasks
GatherResults == [k \in 1..NumPositions |-> tret[k][1]]

ProcessedResults(rs) == [k \in 1..Len(rs) |-> ProcessedResult(k, rs[k])]

NoResult == [kind |-> "none", error |-> "", moves |-> << >>, analysis_source |-> "", game_id |-> 0]
ErrorResult(msg) == [NoResult EXCEPT !.kind = "error", !.error = msg]
Analysis(moves, src) ==
    [kind |-> "analysis", error |-> "", moves |-> moves, analysis_source |-> src, game_id |-> 1]

\* line 56: "error" not in result and result.get("moves")
Usable(r) == r.kind = "analysis" /\ r.moves /= << >>

Failed == ErrorResult("Analysis failed - no engine available")

\* ------------------------------------------------------- StockfishPool.start
\* get_stockfish_pool creates the pool and enters start(): lines 270-278, 59-68
GetPool ==
    /\ apc = "get_pool"
    /\ ~poolExists
    /\ poolExists' = TRUE
    /\ IF enginePathOk
       THEN /\ apc' = "launching"
            /\ launchIdx' = 0
       ELSE /\ apc' = "dispatch"
            /\ UNCHANGED launchIdx
    /\ UNCHANGED <<inputVars, engines, available, getters, started, closed, taskVars,
                   result, tier, poolOutcome, cloudOutcome, propagated, cloudVars>>

\* a failing popen_uci that is not caught inside start(): the exception
\* leaves start(), get_stockfish_pool and analyze_game
LaunchEscalates(ok) ==
    /\ apc = "launching"
    /\ launchIdx < PoolSize
    /\ IF ok
       THEN /\ engines' = Append(engines, Len(engines) + 1)
            /\ available' = QueuePut(available, Len(engines) + 1)
            /\ launchIdx' = launchIdx + 1
            /\ IF launchIdx + 1 = PoolSize
               THEN started' = TRUE /\ apc' = "dispatch"
               ELSE UNCHANGED <<started, apc>>
            /\ UNCHANGED propagated
       ELSE /\ propagated' = TRUE
            /\ apc' = "done"
            /\ UNCHANGED <<engines, available, launchIdx, started>>
    /\ UNCHANGED <<inputVars, poolExists, getters, closed, taskVars,
                   result, tier, poolOutcome, cloudOutcome, cloudVars>>

\* one iteration of the loop of start(): popen_uci succeeds or raises;
\* after the last one start() sets _started and returns (lines 70-80)
Launch(ok) ==
    /\ apc = "launching"
    /\ launchIdx < PoolSize
    /\ IF ok
       THEN /\ engines' = Append(engines, Len(engines) + 1)
            /\ available' = QueuePut(available, Len(engines) + 1)
       ELSE UNCHANGED <<engines, available>>
    /\ launchIdx' = launchIdx + 1
    /\ IF launchIdx + 1 = PoolSize
       THEN started' = TRUE /\ apc' = "dispatch"
       ELSE UNCHANGED <<started, apc>>
    /\ UNCHANGED <<inputVars, poolExists, getters, closed, taskVars,
                   result, tier, poolOutcome, cloudOutcome, propagated, cloudVars>>

\* start() called on a pool whose start() has returned, lines 61-66: with
\* _started set it returns at once, and without a binary it returns after
\* the check of the path
StartAgain ==
    /\ poolExists
    /\ apc /= "launching"
    /\ started \/ ~enginePathOk
    /\ UNCHANGED vars

\* availability read off the _started flag instead of the list of engines
IsStarted == started

\* is_available(), lines 261-263
is_available == engines /= << >>

\* a second analyze_game calls get_stockfish_pool while _pool is set (lines
\* 270-279): the test `_pool is None` fails and the pool is returned at once,
\* whatever start() has done so far; the caller then reads is_available()
\* (game_analyzer.py 51-53)
PeerGetPool ==
    /\ peer = "start"
    /\ poolExists
    /\ peer' = "has_pool"
    /\ peerPool' = Some([start_returned |-> apc /= "launching",
                         is_available |-> is_available,
                         engines |-> engines])
    /\ UNCHANGED <<pgnKind, nPlies, firstColor, material, useFallback, enginePathOk, callVars,
                   endpointVars, poolVars, taskVars, gameVars, cloudVars>>

\* ----------------------------------------------- GameAnalyzer.analyze_game
\* lines 53-67 and 97-138, 189-199: choose the path; on the pooled path parse
\* the PGN, collect the positions and create one task per position
Dispatch ==
    /\ apc = "dispatch"
    /\ IF is_available
       THEN /\ tier' = tier \cup {"pool"}
            /\ IF pgnKind = "none"
               THEN /\ apc' = "fallback"
                    /\ poolOutcome' = "error"
                    /\ UNCHANGED tpc
               ELSE /\ apc' = "gather"
                    /\ tpc' = [t \in Tasks |-> IF t <= NumPositions THEN "new" ELSE tpc[t]]
                    /\ UNCHANGED poolOutcome
       ELSE /\ apc' = "fallback"
            /\ UNCHANGED <<tier, tpc, poolOutcome>>
    /\ UNCHANGED <<inputVars, poolVars, theld, tret, acquired, released, completed,
                   result, cloudOutcome, propagated, cloudVars>>

\* the task objects of a finished gather are dropped
TasksCollected ==
    /\ tpc' = [t \in Tasks |-> "absent"]
    /\ theld' = [t \in Tasks |-> 0]
    /\ tret' = [t \in Tasks |-> None]
    /\ acquired' = [t \in Tasks |-> 0]
    /\ released' = [t \in Tasks |-> 0]
    /\ completed' = << >>

AllTasksDone == \A t \in 1..NumPositions : tpc[t] = "done"

\* the pooled path called outside the try block: its exception leaves
\* analyze_game
PoolPathFinishUncaught(f, raises) ==
    /\ apc = "gather"
    /\ AllTasksDone
    /\ LET evals == ProcessedResults(GatherResults)
           moves == [i \in 1..nPlies |-> PoolMoveRecord(evals, i, f[i])]
           res == Analysis(moves, "stockfish")
       IN IF raises
          THEN /\ poolOutcome' = "raised"
               /\ propagated' = TRUE
               /\ apc' = "done"
               /\ UNCHANGED result
          ELSE IF Usable(res)
          THEN /\ poolOutcome' = "usable"
               /\ result' = res
               /\ apc' = "done"
               /\ UNCHANGED propagated
          ELSE /\ poolOutcome' = "no_moves"
               /\ apc' = "fallback"
               /\ UNCHANGED <<result, propagated>>
    /\ TasksCollected
    /\ UNCHANGED <<inputVars, poolVars, tier, cloudOutcome, cloudVars>>

\* lines 202-213, 140-267 and 56-65: gather has returned; classify every ply
\* and return the result if it is usable. An exception anywhere in the
\* pooled path is caught at line 62.
PoolPathFinish(f, raises) ==
    /\ apc = "gather"
    /\ AllTasksDone
    /\ LET evals == ProcessedResults(GatherResults)
           moves == [i \in 1..nPlies |-> PoolMoveRecord(evals, i, f[i])]
           res == Analysis(moves, "stockfish")
       IN IF raises
          THEN /\ poolOutcome' = "raised"
               /\ apc' = "fallback"
               /\ UNCHANGED result
          ELSE IF Usable(res)
          THEN /\ poolOutcome' = "usable"
               /\ result' = res
               /\ apc' = "done"
          ELSE /\ poolOutcome' = "no_moves"
               /\ apc' = "fallback"
               /\ UNCHANGED result
    /\ TasksCollected
    /\ UNCHANGED <<inputVars, poolVars, tier, cloudOutcome, propagated, cloudVars>>

\* --------------------------------------------------------------- lichess.py
BatchSize == 5

\* what one request to the cloud-eval endpoint yields: a cached evaluation
\* (relative to White), no usable answer (404, no pvs, network error caught
\* inside get_cloud_eval), or an exception escaping evaluate_position
Cached(mate, cp, best) ==
    [kind |-> "cached", mate |-> mate, cp |-> cp, best |-> best, depth |-> 30]
Uncached(kind) == [kind |-> kind, mate |-> None, cp |-> 0, best |-> "None", depth |-> 0]

CloudReplies ==
    { Cached(None, 80, "played"),
      Cached(None, -200, "other"),
      Cached(Some(3), 0, "played"),
      Uncached("not_found"), Uncached("raise") }

\* lines 394-433
get_cloud_eval(k, r) ==
    IF r.kind = "cached"
    THEN Some([fen |-> k,
               evaluation |-> IF r.mate /= None
                              THEN (IF r.mate[1] > 0 THEN 10000 ELSE -10000)
                              ELSE r.cp,
               best_move |-> r.best,
               second_best_eval |-> None,
               is_mate |-> FALSE,
               mate_in |-> r.mate,
               depth |-> r.depth,
               source |-> "lichess_cloud"])
    ELSE None

\* lines 522-554: material from White's perspective
LichessHeuristic(k) == material[k]

HeuristicEntry(k) ==
    [fen |-> k, evaluation |-> LichessHeuristic(k), best_move |-> "None",
     second_best_eval |-> None, is_mate |-> FALSE, mate_in |-> None,
     depth |-> 0, source |-> "heuristic"]

\* lines 455-485: the value evaluate_position returns for position k
evaluate_position(k, r) ==
    LET eval_result == get_cloud_eval(k, r)
    IN IF eval_result /= None THEN eval_result[1] ELSE HeuristicEntry(k)

\* the entries still None left out instead of filled
FillDropNone(rs) ==
    LET kept == SelectSeq(rs, LAMBDA e : e /= None)
    IN [k \in 1..Len(kept) |-> kept[k][1]]

\* lines 508-518: entries still None are filled with the heuristic
FillNone(rs) == [k \in 1..Len(rs) |-> IF rs[k] = None THEN HeuristicEntry(k) ELSE rs[k][1]]

CloudEvalPerspective(evaluation, color) == evaluation * (IF color = "w" THEN 1 ELSE -1)

\* lines 641-711: the record of ply i built from the cloud evaluations
CloudMoveRecord(evals, i, f) ==
    LET eval_before == EvaluationAt(evals, i)
        eval_after == EvaluationAt(evals, i + 1)
        color == Turn(i)
        evaluation_before == eval_before.evaluation
        evaluation_after == eval_after.evaluation
        ebp == CloudEvalPerspective(evaluation_before, color)
        eap == CloudEvalPerspective(evaluation_after, color)
        is_mate_before == Abs(evaluation_before) >= 9000
        is_mate_after == Abs(evaluation_after) >= 9000
        MateIn(is_mate, evaluation) ==
            IF ~is_mate THEN None
            ELSE Some((IF evaluation > 0 THEN 1 ELSE -1) * (IF color = "b" THEN -1 ELSE 1))
        args == [eval_before |-> ebp,
                 eval_after |-> eap,
                 is_best_move |-> eval_before.best_move = "played",
                 second_best_eval |-> None,
                 is_mate_before |-> is_mate_before,
                 is_mate_after |-> is_mate_after,
                 mate_in_before |-> MateIn(is_mate_before, evaluation_before),
                 mate_in_after |-> MateIn(is_mate_after, evaluation_after),
                 move_number |-> MoveNumber(i),
                 is_only_legal_move |-> f.is_only_legal,
                 in_check |-> f.in_check,
                 piece_hanging |-> f.piece_hanging,
                 dest_hanging |-> f.dest_hanging,
                 fen_ok |-> TRUE,
                 uci_ok |-> TRUE]
    IN [ply |-> i,
        move_number |-> MoveNumber(i),
        color |-> color,
        fen_before |-> i,
        fen_after |-> i + 1,
        evaluation_before |-> evaluation_before,
        evaluation_after |-> evaluation_after,
        evaluation_loss |-> ebp - eap,
        best_move |-> eval_before.best_move,
        second_best_eval |-> None,
        classified |-> args,
        quality |-> classify_move(args),
        explained |-> FALSE,
        source |-> IF eval_before.source = "absent" THEN "lichess_cloud"
                   ELSE eval_before.source]

\* lines 69-81 and 574-625: the fallback; analyze_full_game parses the PGN
\* and collects the positions
Fallback(serviceRaises) ==
    /\ apc = "fallback"
    /\ IF ~useFallback
       THEN /\ result' = Failed
            /\ apc' = "done"
            /\ cloudOutcome' = "disabled"
            /\ UNCHANGED <<tier, cloudVars>>
       ELSE /\ tier' = tier \cup {"cloud"}
            /\ IF serviceRaises
               THEN /\ result' = Failed
                    /\ apc' = "done"
                    /\ cloudOutcome' = "raised"
                    /\ UNCHANGED cloudVars
               ELSE IF pgnKind = "none"
               THEN /\ result' = Failed
                    /\ apc' = "done"
                    /\ cloudOutcome' = "error"
                    /\ UNCHANGED cloudVars
               ELSE /\ apc' = "cloud_batch"
                    /\ results' = [k \in 1..NumPositions |-> None]
                    /\ batchStart' = 0
                    /\ UNCHANGED <<result, cloudOutcome, lookup>>
    /\ UNCHANGED <<inputVars, poolVars, taskVars, poolOutcome, propagated>>

\* every position in one batch
BatchAll == NumPositions

BatchEnd == IF batchStart + BatchSize < NumPositions THEN batchStart + BatchSize ELSE NumPositions
Batch == (batchStart + 1)..BatchEnd

\* lines 488-494: the coroutines of one batch are created and gathered
CloudBatchStart ==
    /\ apc = "cloud_batch"
    /\ lookup' = [k \in DOMAIN lookup |-> IF k \in Batch THEN "inflight" ELSE lookup[k]]
    /\ apc' = "cloud_wait"
    /\ UNCHANGED <<inputVars, poolVars, taskVars, result, tier, poolOutcome, cloudOutcome, propagated,
                   results, batchStart>>

\* one evaluate_position coroutine ends; lines 497-502 store what it returned
\* (an exception leaves the entry None)
CloudReply(k, r) ==
    /\ apc = "cloud_wait"
    /\ lookup[k] = "inflight"
    /\ lookup' = [lookup EXCEPT ![k] = "done"]
    /\ results' = [results EXCEPT ![k] = IF r.kind = "raise" THEN None
                                         ELSE Some(evaluate_position(k, r))]
    /\ UNCHANGED <<inputVars, poolVars, taskVars, gameVars, batchStart>>

\* lines 505-506: a batch that is not the last one is followed by the delay.
\* A game of fewer than BatchSize positions has a single batch: these two
\* steps are taken under SpecCloud, whose games are longer.
CloudBatchStore ==
    /\ apc = "cloud_wait"
    /\ \A k \in Batch : lookup[k] = "done"
    /\ BatchEnd < NumPositions
    /\ apc' = "cloud_sleep"
    /\ UNCHANGED <<inputVars, poolVars, taskVars, result, tier, poolOutcome, cloudOutcome, propagated, cloudVars>>

CloudSleepDone ==
    /\ apc = "cloud_sleep"
    /\ batchStart' = batchStart + BatchSize
    /\ apc' = "cloud_batch"
    /\ UNCHANGED <<inputVars, poolVars, taskVars, result, tier, poolOutcome, cloudOutcome, propagated,
                   lookup, results>>

\* lines 508-520, 641-734 and 75-81: after the last batch the list is
\* completed, every ply classified and the analysis returned; an exception
\* inside analyze_full_game becomes an error result
CloudFinish(f, raises) ==
    /\ apc = "cloud_wait"
    /\ \A k \in Batch : lookup[k] = "done"
    /\ BatchEnd >= NumPositions
    /\ LET evals == FillNone(results)
           moves == [i \in 1..nPlies |-> CloudMoveRecord(evals, i, f[i])]
           res == IF raises THEN ErrorResult("exception")
                  ELSE Analysis(moves, "lichess_cloud")
       IN /\ result' = IF res.kind = "error" THEN Failed ELSE res
          /\ cloudOutcome' = IF res.kind = "error" THEN "error" ELSE "ok"
    /\ apc' = "done"
    /\ UNCHANGED <<inputVars, poolVars, taskVars, tier, poolOutcome, propagated, cloudVars>>

\* ------------------------------------------------------------ specification
\* material balance of the positions of the game: White is up a growing
\* number of pawns, so that every position has its own heuristic value
MaterialProfiles == { [k \in 1..MaxPositions |-> 100 * k] }

InitAnalysis ==
    /\ pgnKind \in {"none", "ok"}
    /\ nPlies \in 0..MaxPlies
    /\ pgnKind = "none" => nPlies = 0
    /\ firstColor \in {"w", "b"}
    /\ material \in MaterialProfiles
    /\ useFallback \in BOOLEAN
    /\ enginePathOk \in BOOLEAN
    /\ poolExists = FALSE
    /\ engines = << >>
    /\ available = << >>
    /\ getters = << >>
    /\ started = FALSE
    /\ launchIdx = 0
    /\ closed = FALSE
    /\ tpc = [t \in Tasks |-> "absent"]
    /\ theld = [t \in Tasks |-> 0]
    /\ tret = [t \in Tasks |-> None]
    /\ acquired = [t \in Tasks |-> 0]
    /\ released = [t \in Tasks |-> 0]
    /\ completed = << >>
    /\ result = NoResult
    /\ tier = {}
    /\ poolOutcome = ""
    /\ cloudOutcome = ""
    /\ propagated = FALSE
    /\ lookup = [k \in 1..MaxPositions |-> "idle"]
    /\ results = << >>
    /\ batchStart = 0
    /\ cargs = NoCall
    /\ cvalue = ""
    /\ amoves = << >>
    /\ aval = None
    /\ peer = "start"
    /\ peerPool = None

\* analyze_game called on its own: no request to the analyze endpoint is open
NoRequest ==
    /\ epc = "none"
    /\ force = FALSE
    /\ dbMoves = << >>
    /\ dbAnalyzed = FALSE

Init == InitAnalysis /\ apc = "get_pool" /\ NoRequest

PlyFacts == [1..nPlies -> PlyFactSet]

Next ==
    \/ GetPool
    \/ StartAgain
    \/ \E ok \in BOOLEAN : Launch(ok)
    \/ Dispatch
    \/ \E t \in Tasks : TaskStart(t)
    \/ \E t \in Tasks : TaskWake(t)
    \/ \E t \in Tasks, r \in EngineReplies : TaskFinish(t, r)
    \/ \E f \in PlyFacts, raises \in BOOLEAN : PoolPathFinish(f, raises)
    \/ \E serviceRaises \in BOOLEAN : Fallback(serviceRaises)
    \/ CloudBatchStart
    \/ \E k \in DOMAIN lookup, r \in CloudReplies : CloudReply(k, r)
    \/ \E f \in PlyFacts, raises \in BOOLEAN : CloudFinish(f, raises)

Spec == Init /\ [][Next]_vars

\* the steps of the coroutines analyze_positions_parallel gathers
PoolSteps ==
    \/ \E t \in Tasks : TaskStart(t)
    \/ \E t \in Tasks : TaskWake(t)
    \/ \E t \in Tasks, r \in EngineReplies : TaskFinish(t, r)

\* the same call under the scheduling of the event loop: every coroutine
\* that is ready is run, and every engine call completes
SpecFair == Init /\ [][Next]_vars /\ WF_vars(PoolSteps)

\* the same call served by engines one of which may stop answering; the
\* event loop runs every coroutine that is ready and the other engines answer
NextStall ==
    \/ Next
    \/ \E t \in Tasks : EngineStall(t)

SpecStall == Init /\ [][NextStall]_vars /\ WF_vars(Next)

\* two analyses started at the same time: the second asks for the pool at
\* any moment after the first has created it
NextTwo ==
    \/ Next
    \/ PeerGetPool

SpecTwo == Init /\ [][NextTwo]_vars

\* the same call with the pool closed at any moment after it started
NextLife ==
    \/ Next
    \/ Close

SpecLife == Init /\ [][NextLife]_vars

\* the pool closed at any moment after it started, and started again
NextRestart ==
    \/ NextLife
    \/ \E oks \in [1..PoolSize -> BOOLEAN] : StartAfterClose(oks)

SpecRestart == Init /\ [][NextRestart]_vars

\* ------------------------------------------------- routers/games.py analyze_game
\* the rows a complete earlier analysis of this game left in the Move table
OldRows == [i \in 1..nPlies |-> [id |-> i, quality |-> "good", source |-> "stockfish"]]

\* lines 362-383: the Move row built from one entry of analysis["moves"]
MoveRow(n, move_data) == [id |-> n, quality |-> move_data.quality, source |-> move_data.source]

\* lines 266-350: the game is fetched; a stored analysis with moves is returned
\* as it is unless force is set, otherwise analyze_game is called (line 350)
EndpointStart ==
    /\ epc = "request"
    /\ IF dbAnalyzed /\ ~force /\ dbMoves /= << >>
       THEN epc' = "returned" /\ apc' = apc
       ELSE epc' = "analysing" /\ apc' = "get_pool"
    /\ UNCHANGED <<pgnKind, nPlies, firstColor, material, useFallback, enginePathOk, callVars,
                   peerVars, force, dbMoves, dbAnalyzed, poolVars, taskVars, cloudVars,
                   result, tier, poolOutcome, cloudOutcome, propagated>>

\* lines 350-388: analyze_game has returned; the stored rows of the game are
\* deleted, one row is added per entry of analysis.get("moves", []), the game
\* is marked analyzed and the session is committed
EndpointSave ==
    /\ epc = "analysing"
    /\ apc = "done"
    /\ ~propagated
    /\ LET moves_data == result.moves
       IN dbMoves' = [k \in 1..Len(moves_data) |-> MoveRow(Len(dbMoves) + k, moves_data[k])]
    /\ dbAnalyzed' = TRUE
    /\ epc' = "returned"
    /\ UNCHANGED <<pgnKind, nPlies, firstColor, material, useFallback, enginePathOk, callVars,
                   peerVars, force, poolVars, taskVars, gameVars, cloudVars>>

\* a request to the analyze endpoint for a game that is either new or carries
\* the rows of a complete earlier analysis; line 349: GameAnalyzer() keeps the
\* default use_lichess_fallback=True
InitEndpoint ==
    /\ InitAnalysis
    /\ useFallback = TRUE
    /\ apc = "not_called"
    /\ epc = "request"
    /\ force \in BOOLEAN
    /\ dbAnalyzed \in BOOLEAN
    /\ dbMoves = IF dbAnalyzed /\ pgnKind = "ok" THEN OldRows ELSE << >>

NextEndpoint ==
    \/ EndpointStart
    \/ Next
    \/ EndpointSave

SpecEndpoint == InitEndpoint /\ [][NextEndpoint]_vars

\* the cloud path on games long enough for more than one batch: no Stockfish
\* binary is found, the fallback is enabled and the PGN parses
CloudPositions == 1..(CloudMaxPlies + 1)

BatchReplies == { Cached(None, 80, "played"), Uncached("not_found"), Uncached("raise") }

CloudFacts == { [i \in 1..nPlies |-> Facts(FALSE, FALSE, TRUE, FALSE)] }

InitCloud ==
    /\ pgnKind = "ok"
    /\ nPlies \in 0..CloudMaxPlies
    /\ firstColor \in {"w", "b"}
    /\ material = [k \in CloudPositions |-> 100 * k]
    /\ useFallback = TRUE
    /\ enginePathOk = FALSE
    /\ poolExists = FALSE
    /\ engines = << >>
    /\ available = << >>
    /\ getters = << >>
    /\ started = FALSE
    /\ launchIdx = 0
    /\ closed = FALSE
    /\ tpc = [t \in Tasks |-> "absent"]
    /\ theld = [t \in Tasks |-> 0]
    /\ tret = [t \in Tasks |-> None]
    /\ acquired = [t \in Tasks |-> 0]
    /\ released = [t \in Tasks |-> 0]
    /\ completed = << >>
    /\ apc = "get_pool"
    /\ result = NoResult
    /\ tier = {}
    /\ poolOutcome = ""
    /\ cloudOutcome = ""
    /\ propagated = FALSE
    /\ lookup = [k \in CloudPositions |-> "idle"]
    /\ results = << >>
    /\ batchStart = 0
    /\ cargs = NoCall
    /\ cvalue = ""
    /\ amoves = << >>
    /\ aval = None
    /\ peer = "start"
    /\ peerPool = None
    /\ NoRequest

NextCloud ==
    \/ GetPool
    \/ Dispatch
    \/ \E serviceRaises \in BOOLEAN : Fallback(serviceRaises)
    \/ CloudBatchStart
    \/ \E k \in DOMAIN lookup, r \in BatchReplies : CloudReply(k, r)
    \/ CloudBatchStore
    \/ CloudSleepDone
    \/ \E f \in CloudFacts, raises \in BOOLEAN : CloudFinish(f, raises)

SpecCloud == InitCloud /\ [][NextCloud]_vars

\* classify_move called on its own over a grid of arguments
InitClassify ==
    /\ pgnKind = "ok"
    /\ nPlies = 0
    /\ firstColor = "w"
    /\ material \in MaterialProfiles
    /\ useFallback = TRUE
    /\ enginePathOk = TRUE
    /\ poolExists = FALSE
    /\ engines = << >>
    /\ available = << >>
    /\ getters = << >>
    /\ started = FALSE
    /\ launchIdx = 0
    /\ closed = FALSE
    /\ tpc = [t \in Tasks |-> "absent"]
    /\ theld = [t \in Tasks |-> 0]
    /\ tret = [t \in Tasks |-> None]
    /\ acquired = [t \in Tasks |-> 0]
    /\ released = [t \in Tasks |-> 0]
    /\ completed = << >>
    /\ apc = "get_pool"
    /\ result = NoResult
    /\ tier = {}
    /\ poolOutcome = ""
    /\ cloudOutcome = ""
    /\ propagated = FALSE
    /\ lookup = [k \in 1..MaxPositions |-> "idle"]
    /\ results = << >>
    /\ batchStart = 0
    /\ \E pair \in EvalPairs, best \in BOOLEAN, second \in SecondChoices,
          mateBefore \in MatesBefore, mateAfter \in MatesAfter,
          number \in MoveNumbers, only \in BOOLEAN, board \in Boards :
            cargs = ClassifyArgs(pair, best, second, mateBefore, mateAfter, number, only, board)
    /\ cvalue = ""
    /\ amoves = << >>
    /\ aval = None
    /\ peer = "start"
    /\ peerPool = None
    /\ NoRequest

NextClassify == ClassifyCall

SpecClassify == InitClassify /\ [][NextClassify]_vars

\* no game is being analysed and the pool was never asked for
Quiet ==
    /\ pgnKind = "ok"
    /\ nPlies = 0
    /\ firstColor = "w"
    /\ material \in MaterialProfiles
    /\ useFallback = TRUE
    /\ enginePathOk = TRUE
    /\ poolExists = FALSE
    /\ engines = << >>
    /\ available = << >>
    /\ getters = << >>
    /\ started = FALSE
    /\ launchIdx = 0
    /\ closed = FALSE
    /\ tpc = [t \in Tasks |-> "absent"]
    /\ theld = [t \in Tasks |-> 0]
    /\ tret = [t \in Tasks |-> None]
    /\ acquired = [t \in Tasks |-> 0]
    /\ released = [t \in Tasks |-> 0]
    /\ completed = << >>
    /\ apc = "get_pool"
    /\ result = NoResult
    /\ tier = {}
    /\ poolOutcome = ""
    /\ cloudOutcome = ""
    /\ propagated = FALSE
    /\ lookup = [k \in 1..MaxPositions |-> "idle"]
    /\ results = << >>
    /\ batchStart = 0

\* the accuracy functions called on their own over every short move list
InitAccuracy ==
    /\ Quiet
    /\ cargs = NoCall
    /\ cvalue = ""
    /\ amoves = << >>
    /\ aval = None
    /\ peer = "start"
    /\ peerPool = None
    /\ NoRequest

NextAccuracy ==
    \/ \E m \in AccuracyMoves : AppendMove(m)
    \/ AccuracyCall

SpecAccuracy == InitAccuracy /\ [][NextAccuracy]_vars

\* ==================================================================== claims
Holders(e) == {t \in Tasks : theld[t] = e}
Held == {t \in Tasks : theld[t] /= 0}
InQueue(e) == {n \in 1..Len(available) : available[n] = e}

\* C1: no engine is held by two analyze_position calls at the same time, and
\* the number of engines held never exceeds the number of engines the pool
\* started, which is at most pool_size.
C1_ExclusiveHandles ==
    /\ \A t, u \in Tasks : (t /= u /\ theld[t] /= 0) => theld[t] /= theld[u]
    /\ Cardinality(Held) <= Len(engines)
    /\ Len(engines) <= PoolSize

\* two calls hold different engines while a third waits for one
C1_Witness ==
    \E t, u, w \in Tasks :
        /\ t /= u /\ theld[t] /= 0 /\ theld[u] /= 0
        /\ tpc[w] = "waiting"

\* C2: every started engine is either exactly once in the availability queue
\* or held by exactly one in-flight call, so the queue length plus the number
\* of engines held equals the number of started engines.
C2_Conservation ==
    /\ \A e \in 1..Len(engines) : Cardinality(InQueue(e)) + Cardinality(Holders(e)) = 1
    /\ \A n \in 1..Len(available) : available[n] \in 1..Len(engines)
    /\ \A t \in Tasks : theld[t] \in 0..Len(engines)
    /\ Len(available) + Cardinality(Held) = Len(engines)

\* an engine has been released and is back in the queue while another one is
\* still held and a later call has finished waiting
C2_Witness ==
    \E t, u, w \in Tasks :
        /\ released[t] = 1 /\ theld[u] /= 0 /\ available /= << >>
        /\ tpc[w] = "woken"

\* C3: analyze_positions_parallel returns one evaluation per position, the
\* one at index k being the evaluation of position k, whatever the order the
\* calls completed in and whichever failed; the record of ply i is built from
\* the evaluations of positions i and i+1.
C3_OrderPreserved ==
    [][(apc = "gather" /\ AllTasksDone) =>
        LET rs == ProcessedResults(GatherResults) IN
        /\ Len(rs) = NumPositions
        /\ \A k \in 1..NumPositions : rs[k].fen = k
        /\ (apc' = "done" =>
              /\ Len(result'.moves) = nPlies
              /\ \A i \in 1..nPlies :
                    /\ result'.moves[i].ply = i
                    /\ result'.moves[i].evaluation_before = tret[i][1].evaluation
                    /\ result'.moves[i].evaluation_after = tret[i + 1][1].evaluation
                    /\ result'.moves[i].best_move = tret[i][1].best_move)]_vars

\* the analysis has been returned after the calls completed out of order,
\* some of them having failed
C3_Witness ==
    /\ apc = "gather" /\ AllTasksDone
    /\ NumPositions = MaxPositions
    /\ completed[1] /= 1
    /\ \E t, u \in Tasks :
          tret[t][1].source = "heuristic" /\ tret[u][1].source = "stockfish"

\* C4: every acquire is followed by exactly one release of the same engine
\* on every exit path of analyze_position; a call that fails returns the
\* heuristic evaluation of its own position and leaves the other calls of
\* the batch untouched.
C4_ReleaseOnEveryPath ==
    [][\A t \in Tasks :
        /\ (tpc'[t] /= "absent" /\ acquired'[t] /= acquired[t]) =>
              /\ acquired[t] = 0 /\ acquired'[t] = 1
              /\ theld[t] = 0 /\ theld'[t] = Head(available)
        /\ (tpc'[t] /= "absent" /\ released'[t] /= released[t]) =>
              tpc[t] = "analysing" /\ released'[t] = released[t] + 1
        /\ (tpc[t] = "analysing" /\ tpc'[t] /= "analysing") =>
              /\ tpc'[t] = "done"
              /\ released'[t] = 1
              /\ available' = Append(available, theld[t])
              /\ theld'[t] = 0
              /\ tret'[t] /= None
              /\ tret'[t][1].fen = t
              /\ tret'[t][1].source \in {"stockfish", "heuristic"}
              /\ tret'[t][1].source = "heuristic" => tret'[t][1] = _heuristic_evaluate(t)
              /\ \A u \in Tasks \ {t} :
                    /\ tret'[u] = tret[u]
                    /\ theld'[u] = theld[u]
                    /\ tpc'[u] \in {tpc[u], "woken"}
        /\ (tpc[t] = "done" /\ tpc'[t] = "done") => tret'[t] = tret[t]]_vars

\* a call that failed has released its engine and returned the heuristic,
\* and another call of the same batch has returned an engine evaluation
C4_Witness ==
    \E t, u \in Tasks :
        /\ tpc[t] = "done" /\ acquired[t] = 1 /\ released[t] = 1
        /\ tret[t][1].source = "heuristic"
        /\ tpc[u] = "done" /\ u > t /\ tret[u][1].source = "stockfish"

\* C5: a stalled engine process does not wedge the pool: while
\* analyze_positions_parallel is in progress with one engine stalled, some
\* step of the call remains possible (a waiting position obtains a handle, a
\* position completes, or the full list is returned with the heuristic in the
\* place of the stalled position), for every pool size >= 1.
C5_StallDoesNotWedge ==
    (apc = "gather" /\ \E t \in Tasks : tpc[t] = "stalled") => ENABLED <<Next>>_vars

\* C6: after close() no caller is left waiting in acquire and no acquire
\* succeeds: acquires fail fast, those issued after the shutdown and those
\* that were waiting when it happened.
C6_AcquireFailsFast ==
    [][/\ closed' => \A t \in Tasks : tpc'[t] \notin {"waiting", "woken"}
       /\ closed => \A t \in Tasks : acquired'[t] <= acquired[t]]_vars

Cloud == {"cloud_batch", "cloud_wait", "cloud_sleep"}

Classifications ==
    {"brilliant", "great", "best", "excellent", "good", "inaccuracy", "mistake",
     "blunder", "book", "forced", "miss"}

\* C8: with no engine in the pool and no cloud evaluation for any position,
\* analyze_game returns, for a parseable game and with nothing raising, a
\* complete analysis: one classified move per ply, evaluated by the material
\* heuristic and recorded with source heuristic; the lack of a strong
\* evaluator alone never produces the failed result.
C8_HeuristicAnalysis ==
    (/\ apc = "done" /\ pgnKind = "ok" /\ engines = << >>
     /\ cloudOutcome \notin {"raised", "error"}
     /\ \A k \in 1..Len(results) : results[k] /= None /\ results[k][1].source = "heuristic")
    => /\ result.kind = "analysis"
       /\ Len(result.moves) = nPlies
       /\ \A i \in 1..Len(result.moves) :
             /\ result.moves[i].source = "heuristic"
             /\ result.moves[i].evaluation_before = material[i]
             /\ result.moves[i].evaluation_after = material[i + 1]
             /\ result.moves[i].quality \in Classifications

\* C9: analyze_game never lets an exception reach its caller: it returns an
\* analysis or the explicit failed result, and the failed result only when
\* neither the pooled path nor the cloud path produced a usable analysis.
C9_NoExceptionEscapes ==
    /\ ~propagated
    /\ apc = "done" =>
          /\ result.kind \in {"analysis", "error"}
          /\ result.kind = "error" =>
                /\ result = Failed
                /\ poolOutcome /= "usable"
                /\ cloudOutcome /= "ok"
          /\ result.kind = "analysis" =>
                \/ poolOutcome = "usable" /\ result.analysis_source = "stockfish"
                \/ cloudOutcome = "ok" /\ result.analysis_source = "lichess_cloud"

\* the pooled path raised, the cloud path raised too, and the caller got
\* the failed result
C9_Witness ==
    /\ apc = "done" /\ result = Failed
    /\ poolOutcome = "raised" /\ cloudOutcome = "raised"

\* C10: in the analysis of the pooled path, for every ply of either colour,
\* the eval_before given to classify_move is the evaluation of the position
\* before the move unchanged, the eval_after is the negation of the
\* evaluation of the position after it, and evaluation_loss is their
\* difference.
C10_MoverPerspective ==
    (apc = "done" /\ poolOutcome = "usable") =>
        \A i \in 1..Len(result.moves) :
            LET m == result.moves[i] IN
            /\ m.classified.eval_before = m.evaluation_before
            /\ m.classified.eval_after = -m.evaluation_after
            /\ m.evaluation_loss = m.classified.eval_before - m.classified.eval_after

\* C11: the source of every move record names the tier that produced the
\* evaluation of the position the move was played from: on the pooled path
\* the source of the pool's evaluation (stockfish, or heuristic after a
\* failed call), on the cloud path the source of the cloud evaluation
\* (lichess_cloud or heuristic).
C11_SourceNamesTier ==
    [][/\ (apc = "gather" /\ apc' = "done") =>
             \A i \in 1..Len(result'.moves) :
                 result'.moves[i].source = tret[i][1].source
       /\ (apc = "cloud_wait" /\ apc' = "done" /\ result'.kind = "analysis") =>
             \A i \in 1..Len(result'.moves) :
                 result'.moves[i].source = FillNone(results)[i].source]_vars

InFlight == {k \in DOMAIN lookup : lookup[k] = "inflight"}

\* C12: analyze_game_positions returns one evaluation per submitted position
\* at the index of the position, none missing, whatever each lookup did
\* (cached, not found, exception): a lookup that is not cached or fails gives
\* the heuristic evaluation of its own position and changes nothing for the
\* other lookups of its batch or for the later batches.
C12_OneResultPerPosition ==
    [][/\ \A k \in 1..NumPositions, r \in BatchReplies :
             /\ evaluate_position(k, r).fen = k
             /\ r.kind = "cached" => evaluate_position(k, r).source = "lichess_cloud"
             /\ r.kind /= "cached" => evaluate_position(k, r) = HeuristicEntry(k)
       /\ \A k \in DOMAIN lookup :
             (lookup[k] = "inflight" /\ lookup'[k] = "done") =>
                 /\ apc' = apc
                 /\ batchStart' = batchStart
                 /\ results'[k] = None \/ results'[k][1].fen = k
                 /\ \A j \in DOMAIN lookup \ {k} : lookup'[j] = lookup[j]
                 /\ \A j \in (1..NumPositions) \ {k} : results'[j] = results[j]
       /\ (apc = "cloud_wait" /\ apc' = "done") =>
             LET evals == FillNone(results) IN
             /\ Len(evals) = NumPositions
             /\ \A k \in 1..NumPositions :
                   /\ lookup[k] = "done"
                   /\ evals[k].fen = k
                   /\ evals[k].source \in {"lichess_cloud", "heuristic"}
                   /\ evals[k].source = "heuristic" => evals[k] = HeuristicEntry(k)
                   /\ results[k] = None => evals[k] = HeuristicEntry(k)
                   /\ results[k] /= None => evals[k] = results[k][1]
             /\ result'.kind = "analysis" =>
                   /\ Len(result'.moves) = nPlies
                   /\ \A i \in 1..nPlies :
                         /\ result'.moves[i].evaluation_before = evals[i].evaluation
                         /\ result'.moves[i].evaluation_after = evals[i + 1].evaluation]_vars

\* the second batch has completed after a lookup of the first batch raised,
\* another was not cached and a lookup of the second batch was cached
C12_Witness ==
    /\ apc = "cloud_wait" /\ batchStart = BatchSize
    /\ \A k \in 1..NumPositions : lookup[k] = "done"
    /\ results[2] = None
    /\ results[3] /= None /\ results[3][1].source = "heuristic"
    /\ results[NumPositions] /= None /\ results[NumPositions][1].source = "lichess_cloud"

\* C13: at most batch_size lookups are in flight at any time; the lookups of
\* a batch start only when every lookup of the batches before it has
\* completed and the delay has elapsed; the delay follows every batch but the
\* last one.
C13_BatchedLookups ==
    [][/\ Cardinality(InFlight) <= BatchSize
       /\ Cardinality(InFlight') <= BatchSize
       /\ \A k \in DOMAIN lookup :
             (lookup[k] /= "inflight" /\ lookup'[k] = "inflight") =>
                 /\ apc = "cloud_batch"
                 /\ lookup[k] = "idle"
                 /\ k \in (batchStart + 1)..(batchStart + BatchSize)
                 /\ InFlight = {}
                 /\ \A j \in 1..batchStart : lookup[j] = "done"
       /\ batchStart' /= batchStart =>
             apc = "cloud_sleep" /\ batchStart' = batchStart + BatchSize
       /\ (apc /= "cloud_sleep" /\ apc' = "cloud_sleep") =>
             /\ apc = "cloud_wait"
             /\ InFlight = {}
             /\ batchStart + BatchSize < NumPositions
       /\ (apc = "cloud_wait" /\ apc' = "done") =>
             /\ InFlight = {}
             /\ batchStart + BatchSize >= NumPositions
       /\ (apc = "cloud_wait" /\ InFlight = {}) => apc' /= "cloud_batch"]_vars

\* the delay has elapsed and the lookups of the second batch are in flight
C13_Witness ==
    /\ apc = "cloud_wait" /\ batchStart = BatchSize
    /\ InFlight /= {}
    /\ \A j \in 1..BatchSize : lookup[j] = "done"

\* C14: whatever the launches do, start() returns without raising, the pool
\* holds exactly the engines launched successfully (between 0 and pool_size
\* of them), is_available() is true exactly when there is at least one, and
\* start() on a started pool launches nothing more.
C14_StartNeverRaises ==
    [][/\ ~propagated'
       /\ Len(engines') <= launchIdx' /\ launchIdx' <= PoolSize
       /\ Len(available') <= Len(engines')
       /\ \A n \in 1..Len(engines') : engines'[n] = n
       /\ apc = "launching" =>
             /\ launchIdx' = launchIdx + 1
             /\ \/ engines' = engines /\ available' = available
                \/ /\ engines' = Append(engines, Len(engines) + 1)
                   /\ available' = Append(available, Len(engines) + 1)
             /\ launchIdx' < PoolSize => apc' = "launching" /\ ~started'
             /\ launchIdx' = PoolSize => apc' = "dispatch" /\ started'
       /\ apc' \notin {"get_pool", "launching"} =>
             /\ is_available' <=> Len(engines') >= 1
             /\ started' <=> enginePathOk
       /\ (started /\ apc /= "launching") =>
             engines' = engines /\ launchIdx' = launchIdx /\ started']_vars

\* start() has returned after one launch failed and another succeeded
C14_Witness ==
    /\ apc = "dispatch" /\ started
    /\ launchIdx = PoolSize
    /\ Len(engines) = 1 /\ is_available

WellFormed(e) ==
    /\ e.is_mate <=> e.mate_in /= None
    /\ e.source \in {"stockfish", "heuristic"}
    /\ e.source = "heuristic" =>
          ~e.is_mate /\ e.mate_in = None /\ e.depth = 0 /\ e.best_move = "None"

\* C15: every evaluation analyze_position returns, whatever the engine call
\* did (result, empty list, missing score, exception) and also when the pool
\* has no engine, has is_mate true exactly when mate_in is set and a source
\* among stockfish and heuristic; a heuristic evaluation has is_mate false,
\* no mate_in, depth 0 and no best move.
C15_WellFormedEvaluations ==
    /\ \A t \in Tasks : tret[t] /= None => WellFormed(tret[t][1])
    /\ \A k \in 1..NumPositions :
          /\ WellFormed(_heuristic_evaluate(k))
          /\ _heuristic_evaluate(k).source = "heuristic"
          /\ \A r \in EngineReplies :
                /\ WellFormed(AnalysisResult(k, r))
                /\ r.kind /= "infos" => AnalysisResult(k, r) = _heuristic_evaluate(k)
                /\ r.kind = "infos" => AnalysisResult(k, r).source = "stockfish"

\* one call has returned a mate score of the engine and another one the
\* heuristic after its engine call failed
C15_Witness ==
    \E t, u \in Tasks :
        /\ tret[t] /= None /\ tret[t][1].is_mate /\ tret[t][1].mate_in = Some(2)
        /\ tret[u] /= None /\ tret[u][1].source = "heuristic" /\ acquired[u] = 1

Called == cvalue /= ""

\* C16: classify_move returns FORCED whenever is_only_legal_move is set,
\* whatever the evaluations, the mate flags and distances, the best move and
\* the move number are (the positions being ones python-chess can parse).
C16_ForcedAlways ==
    (Called /\ cargs.is_only_legal_move /\ cargs.fen_ok) => cvalue = "forced"

\* an only legal move in the opening that loses to a mate and was the best
\* move is FORCED
C16_Witness ==
    /\ cvalue = "forced"
    /\ cargs.move_number = 5 /\ cargs.is_best_move
    /\ cargs.is_mate_after /\ cargs.mate_in_after = Some(-1)
    /\ cargs.eval_before = 0 /\ cargs.eval_after = -10

BestQuiet ==
    /\ Called /\ cargs.fen_ok
    /\ ~cargs.is_only_legal_move
    /\ cargs.is_best_move
    /\ ~cargs.is_mate_before /\ ~cargs.is_mate_after
    /\ cargs.second_best_eval = None

\* C17 as stated: a non-forced best move with no mate before or after and
\* second_best_eval unset is classified BEST, GREAT or BRILLIANT for every
\* move number and every pair of evaluations.
C17_BestNeverWeaker ==
    BestQuiet => cvalue \in {"best", "great", "brilliant"}

\* C17 amended: such a move is BOOK when move_number <= 5 and the loss is
\* within the GOOD threshold, and BEST or BRILLIANT otherwise; after move 5
\* it is never weaker than BEST.
C17_BestOrBook ==
    BestQuiet =>
        /\ cvalue \in {"book", "best", "brilliant"}
        /\ cvalue = "book" <=>
              /\ cargs.move_number <= 5
              /\ (cargs.eval_before - cargs.eval_after) * 10000
                    <= get_evaluation_loss_threshold("good", cargs.eval_before)
        /\ cargs.move_number > 5 => cvalue \in {"best", "brilliant"}

\* after the opening a best move that loses 350 centipawns is still BEST
C17_Witness ==
    /\ BestQuiet
    /\ cargs.move_number = 6
    /\ cargs.eval_before = 0 /\ cargs.eval_after = -350
    /\ cvalue = "best"

\* C18: classify_move never returns BLUNDER when eval_after >= 600, and
\* never returns BLUNDER when eval_before <= -600 and no mate is present
\* before or after, through every branch of the decision tree.
C18_NoBlunderWhenDecided ==
    Called =>
        /\ cargs.eval_after >= 600 => cvalue /= "blunder"
        /\ (cargs.eval_before <= -600 /\ ~cargs.is_mate_before /\ ~cargs.is_mate_after)
              => cvalue /= "blunder"

\* a move that loses 600 centipawns from a lost position, which the
\* threshold walk calls a blunder, is returned as an inaccuracy
C18_Witness ==
    /\ Called /\ cargs.fen_ok /\ ~cargs.is_only_legal_move /\ ~cargs.is_best_move
    /\ ~cargs.is_mate_before /\ ~cargs.is_mate_after
    /\ cargs.eval_before = -600 /\ cargs.eval_after = -1200
    /\ BaseClassification(cargs) = "blunder"
    /\ cvalue = "inaccuracy"

WalkedMove ==
    /\ Called /\ cargs.fen_ok
    /\ ~cargs.is_only_legal_move
    /\ ~cargs.is_best_move
    /\ ~cargs.is_mate_before /\ ~cargs.is_mate_after
    /\ cvalue /= "book"

FirstCategory(eval_loss, eval_before) ==
    LET Fits(c) == eval_loss * 10000 <= get_evaluation_loss_threshold(c, eval_before)
    IN IF Fits("best") THEN "best"
       ELSE IF Fits("excellent") THEN "excellent"
       ELSE IF Fits("good") THEN "good"
       ELSE IF Fits("inaccuracy") THEN "inaccuracy"
       ELSE IF Fits("mistake") THEN "mistake"
       ELSE "blunder"

\* C19: for a non-forced, non-book move that is not the best move, with no
\* mate before or after, the category before upgrades and clamps is the first
\* of BEST, EXCELLENT, GOOD, INACCURACY, MISTAKE whose threshold at
\* |eval_before| is at least eval_before - eval_after, and BLUNDER when none
\* is; eval_before = 0 and eval_after = -350 give BLUNDER.
C19_ThresholdWalk ==
    WalkedMove =>
        LET first == FirstCategory(cargs.eval_before - cargs.eval_after, cargs.eval_before)
        IN /\ BaseClassification(cargs) = first
           /\ cvalue = SafetyChecks(GreatUpgrade(BrilliantUpgrade(first, cargs), cargs), cargs)
           /\ (cargs.eval_before = 0 /\ cargs.eval_after = -350) => cvalue = "blunder"
           /\ (first \notin {"best", "blunder", "inaccuracy"}) => cvalue = first

\* the move that goes from 0 to -350 in the opening is a BLUNDER
C19_Witness ==
    /\ WalkedMove
    /\ cargs.move_number = 5
    /\ cargs.eval_before = 0 /\ cargs.eval_after = -350
    /\ cvalue = "blunder"

BestWithGap ==
    /\ Called /\ cargs.fen_ok
    /\ ~cargs.is_only_legal_move
    /\ cargs.is_best_move
    /\ cargs.second_best_eval = Some(cargs.eval_before - 200)
    /\ ~cargs.is_mate_before /\ ~cargs.is_mate_after
    /\ ~cargs.dest_hanging

\* C20 as stated: when the best move is played (and is not the only legal
\* move), second_best_eval is eval_before - 200, no mate is present before or
\* after and the destination square is not hanging, classify_move returns
\* GREAT.
C20_GapIsGreat ==
    BestWithGap => cvalue = "great"

\* C20 amended: under the same conditions classify_move returns BOOK when
\* move_number <= 5 and the loss is within the GOOD threshold, else BRILLIANT
\* when the move leaves a piece hanging (not in check, eval_after >= -50,
\* second_best_eval < 700), and GREAT in every other case.
C20_GapIsGreatUnlessEarlier ==
    BestWithGap =>
        cvalue =
            IF /\ cargs.move_number <= 5
               /\ (cargs.eval_before - cargs.eval_after) * 10000
                     <= get_evaluation_loss_threshold("good", cargs.eval_before)
            THEN "book"
            ELSE IF /\ cargs.second_best_eval[1] < 700
                    /\ cargs.eval_after >= -50
                    /\ ~cargs.in_check
                    /\ cargs.uci_ok
                    /\ cargs.piece_hanging
            THEN "brilliant"
            ELSE "great"

\* after the opening, a best move 200 centipawns ahead of the second best
\* that leaves nothing hanging is GREAT
C20_Witness ==
    /\ BestWithGap
    /\ cargs.move_number = 6
    /\ ~cargs.piece_hanging
    /\ cargs.eval_before = 300 /\ cargs.eval_after = 280
    /\ cvalue = "great"

\* C21: on positions python-chess can parse, classify_move returns BOOK
\* exactly when the move is not the only legal one, move_number <= 5 and
\* eval_before - eval_after is at most the GOOD threshold at |eval_before|;
\* the best-move test, the mate branches, the upgrades and the clamps have no
\* say in it, and BOOK is never returned for move_number > 5.
C21_BookExactly ==
    Called =>
        /\ cargs.fen_ok =>
              (cvalue = "book" <=>
                  /\ ~cargs.is_only_legal_move
                  /\ cargs.move_number <= 5
                  /\ (cargs.eval_before - cargs.eval_after) * 10000
                        <= get_evaluation_loss_threshold("good", cargs.eval_before))
        /\ cargs.move_number > 5 => cvalue /= "book"

\* in the opening the best move, played with a mate in 3 on the board, a gap
\* of 200 to the second best and a piece left hanging, is BOOK
C21_Witness ==
    /\ cvalue = "book"
    /\ cargs.move_number = 5
    /\ cargs.is_best_move
    /\ cargs.is_mate_before /\ cargs.mate_in_before = Some(3)
    /\ cargs.second_best_eval = Some(cargs.eval_before - 200)
    /\ cargs.piece_hanging
    /\ cargs.eval_before = 0 /\ cargs.eval_after = -60

MateKept ==
    /\ Called /\ cargs.fen_ok
    /\ ~cargs.is_only_legal_move
    /\ cargs.move_number > 5
    /\ ~cargs.is_best_move
    /\ cargs.is_mate_before /\ cargs.is_mate_after
    /\ cargs.mate_in_before /= None /\ cargs.mate_in_before[1] > 0
    /\ cargs.mate_in_after /= None

\* C22: with mate on the board before and after, the mover holding a winning
\* mate and playing a move other than the engine's best (after the opening,
\* not forced), the result is BEST when the mover still mates at the same
\* distance or faster, checkmate delivered (distance 0) included, EXCELLENT
\* when slower by at most 2, GOOD when slower by more, and MISTAKE or BLUNDER
\* when the mate is now against the mover.
C22_MateComparison ==
    MateKept =>
        LET mb == cargs.mate_in_before[1]
            ma == cargs.mate_in_after[1]
        IN IF ma < 0 THEN cvalue \in {"mistake", "blunder"}
           ELSE IF ma <= mb THEN cvalue = "best"
           ELSE IF ma <= mb + 2 THEN cvalue = "excellent"
           ELSE cvalue = "good"

AccuracyCalled == aval /= None

\* the values the contract lists, in hundredths
StatedValue(c) ==
    CASE c = "blunder" -> 0 [] c = "mistake" -> 20 [] c = "inaccuracy" -> 40
      [] c = "good" -> 65 [] c = "excellent" -> 90
      [] c \in {"best", "great", "brilliant", "book", "forced"} -> 100

RECURSIVE StatedSum(_)
StatedSum(cs) == IF cs = << >> THEN 0 ELSE StatedValue(Head(cs)) + StatedSum(Tail(cs))

AllAre(cs, c) == \A k \in 1..Len(cs) : cs[k] = c

\* C24 as stated: the overall accuracy and the accuracy of each colour is the
\* mean of the listed values over the moves concerned, times 100; it lies in
\* [0, 100], is exactly 100 for an all-BEST list and exactly 0 for an
\* all-BLUNDER list.
C24_AccuracyIsMean ==
    AccuracyCalled =>
        LET a == aval[1]
            all == AllQualities(amoves)
            ExactTenths(t, cs) ==
                /\ cs /= << >> => t * Len(cs) = 10 * StatedSum(cs)
                /\ 0 <= t /\ t <= 1000
                /\ AllAre(cs, "best") => t = 1000
                /\ AllAre(cs, "blunder") => t = 0
        IN /\ all /= << >> => a.overall.num * Len(all) = StatedSum(all) * a.overall.den
           /\ 0 <= a.overall.num /\ a.overall.num <= 100 * a.overall.den
           /\ AllAre(all, "best") => a.overall.num = 100 * a.overall.den
           /\ AllAre(all, "blunder") => a.overall.num = 0
           /\ ExactTenths(a.white, ColorQualities(amoves, "w"))
           /\ ExactTenths(a.black, ColorQualities(amoves, "b"))

\* C24 amended: over a list with at least one move the overall accuracy is
\* the mean of the listed values times 100, and the accuracy of a colour is
\* that mean over the colour's moves rounded to one decimal; a list, or a
\* colour, with no move has accuracy 0. Every accuracy lies in [0, 100]; with
\* at least one move concerned it is exactly 100 when all are BEST and
\* exactly 0 when all are BLUNDER.
C24_AccuracyIsRoundedMean ==
    AccuracyCalled =>
        LET a == aval[1]
            all == AllQualities(amoves)
            RoundedTenths(t, cs) ==
                /\ cs = << >> => t = 0
                /\ cs /= << >> =>
                      /\ 2 * (t * Len(cs) - 10 * StatedSum(cs)) <= Len(cs)
                      /\ 2 * (10 * StatedSum(cs) - t * Len(cs)) <= Len(cs)
                      /\ AllAre(cs, "best") => t = 1000
                /\ 0 <= t /\ t <= 1000
                /\ AllAre(cs, "blunder") => t = 0
        IN /\ all = << >> => a.overall.num = 0
           /\ all /= << >> =>
                 /\ a.overall.num * Len(all) = StatedSum(all) * a.overall.den
                 /\ AllAre(all, "best") => a.overall.num = 100 * a.overall.den
           /\ a.overall.den > 0
           /\ 0 <= a.overall.num /\ a.overall.num <= 100 * a.overall.den
           /\ AllAre(all, "blunder") => a.overall.num = 0
           /\ RoundedTenths(a.white, ColorQualities(amoves, "w"))
           /\ RoundedTenths(a.black, ColorQualities(amoves, "b"))

\* White plays GOOD, GOOD and BEST and Black one BLUNDER: 57.5 overall, 76.7
\* for White (the mean is 76.66...) and 0 for Black
C24_Witness ==
    /\ AccuracyCalled
    /\ ColorQualities(amoves, "w") = <<"good", "good", "best">>
    /\ ColorQualities(amoves, "b") = <<"blunder">>
    /\ aval[1].white = 767
    /\ aval[1].black = 0
    /\ aval[1].overall = Ratio(230, 4)

\* C25: every move record of every analysis that did not fail, whichever
\* tier produced it, carries an evaluation loss, a classification, an
\* explanation text produced by the explanation generator, and a source.
C25_CompleteRecords ==
    result.kind = "analysis" =>
        \A i \in 1..Len(result.moves) :
            LET m == result.moves[i]
            IN /\ m.evaluation_loss \in Int
               /\ m.quality \in Classifications
               /\ m.explained
               /\ m.source \in {"stockfish", "lichess_cloud", "heuristic"}

\* the cloud's assessment of position k when the engine's, relative to the
\* side to move, is e: relative to White
WhiteRelative(e, k) == IF Turn(k) = "w" THEN e ELSE -e

\* C26: the two tiers compute the same mover-perspective conversion: for
\* every ply analysed by the pooled path from two engine evaluations, the
\* cloud path's conversion applied to the same assessments (relative to
\* White) gives the eval_before, the eval_after and the evaluation loss the
\* pooled path passed to classification, for White movers and Black movers.
C26_SameConversion ==
    [][(apc = "gather" /\ apc' = "done") =>
          \A i \in 1..Len(result'.moves) :
              LET m == result'.moves[i]
                  cloudBefore ==
                      CloudEvalPerspective(WhiteRelative(m.evaluation_before, i), m.color)
                  cloudAfter ==
                      CloudEvalPerspective(WhiteRelative(m.evaluation_after, i + 1), m.color)
              IN (tret[i][1].source = "stockfish" /\ tret[i + 1][1].source = "stockfish") =>
                    /\ m.classified.eval_before = cloudBefore
                    /\ m.classified.eval_after = cloudAfter
                    /\ m.evaluation_loss = cloudBefore - cloudAfter]_vars

\* C27: with every engine call completing and fair scheduling,
\* analyze_positions_parallel terminates for every position list and every
\* pool, lists longer than the pool included (every gathered coroutine
\* finishes, which is when gather returns), and at the moment it returns no
\* handle is held and every started engine is in the availability queue,
\* once.
C27_ParallelTerminates ==
    /\ (apc = "gather") ~> AllTasksDone
    /\ [][(apc = "gather" /\ apc' /= "gather") =>
             /\ Held = {}
             /\ Len(available) = Len(engines)
             /\ \A n \in 1..Len(engines) : Cardinality(InQueue(engines[n])) = 1]_vars

\* three positions have been analysed by a pool of two engines, the third
\* after waiting for a handle, and both engines are back in the queue
C27_Witness ==
    /\ apc = "gather"
    /\ NumPositions = 3
    /\ Len(engines) = 2
    /\ AllTasksDone
    /\ acquired = [t \in Tasks |-> 1]
    /\ Len(available) = 2
    /\ Held = {}

\* C28: when two analyses call get_stockfish_pool at the same time, no
\* caller is handed a pool whose start() has not yet completed, and both
\* observe the same is_available() value and the same engines, so that they
\* take the same evaluation tier.
C28_PoolHandedWhenStarted ==
    peer = "has_pool" =>
        /\ peerPool[1].start_returned
        /\ apc \notin {"get_pool", "launching"} =>
              /\ peerPool[1].is_available = is_available
              /\ peerPool[1].engines = engines

\* C29: after close() the availability queue holds no closed engine: at
\* every moment from then on, a new start() included, every handle in the
\* queue is that of a running engine and is there once, and an engine handed
\* to an analysis is a running one.
C29_NoStaleHandles ==
    [][/\ closed' =>
             /\ \A n \in 1..Len(available') :
                   \E j \in 1..Len(engines') : engines'[j] = available'[n]
             /\ \A n, j \in 1..Len(available') :
                   available'[n] = available'[j] => n = j
       /\ \A t \in Tasks :
             (theld'[t] /= theld[t] /\ theld'[t] /= 0) =>
                 \E j \in 1..Len(engines') : engines'[j] = theld'[t]]_vars

\* C30: when a forced re-analysis of an already analysed game ends in the
\* analysis-failed result (error, no moves), the endpoint leaves the stored
\* state as it was: the stored move rows are not deleted and the game is not
\* marked analysed again; stored rows are replaced only by a complete new set,
\* one row per ply of the game.
C30_FailedAnalysisKeepsStore ==
    [][/\ (epc = "analysing" /\ force /\ dbAnalyzed /\ result = Failed)
            => (dbMoves' = dbMoves /\ dbAnalyzed' = dbAnalyzed)
       /\ dbMoves' /= dbMoves
            => (/\ nPlies >= 1
                /\ Len(dbMoves') = nPlies
                /\ \A k \in 1..Len(dbMoves') : dbMoves'[k].id > Len(dbMoves))]_vars

====
